---- MODULE Spec2Model ----
(***************************************************************************)
(* Model of the PAN_ENGINE report pipeline (src/PAN_ENGINE/app.go) and of  *)
(* the settings store of the Reporting server (src/Reporting/main.go): the *)
(* App session (credentials, report cache, connectivity verdict), the      *)
(* settings vault, GenerateReport, FilterReportData, the exports and the   *)
(* bounded-concurrency BatchExportReports.                                 *)
(*                                                                         *)
(* The specifications share the variables:                                 *)
(*   Spec        the session driven by sequential calls of the bound       *)
(*               methods (one call at a time, as the UI issues them);      *)
(*   BatchSpec   one BatchExportReports call, its goroutines interleaved   *)
(*               at every shared access (semaphore, mutex, cache map,      *)
(*               WaitGroup);                                               *)
(*   ExportSpec  ExportToCSV, ExportToPDF and FilterReportData on a        *)
(*               session with a cache, the clock advancing in seconds;     *)
(*   ProbeSpec   SaveAPISettings and TestAPIConnection, the clock          *)
(*               advancing in minutes;                                     *)
(*   VaultSpec   SaveAPISettings, the settings file changing on disk, and  *)
(*               the application starting again (loadSettings);            *)
(*   ConfigSpec  every operation that saves or loads settings, of the      *)
(*               application and of the Reporting server;                  *)
(*   CsvSpec     generateCSV applied to mappings and to sequences of       *)
(*               mappings, in every format and row limit;                  *)
(*   ViewExportSpec  the exports called with the keys of filtered views;   *)
(*   DatedSpec   GenerateReport with and without date bounds;              *)
(*   DecodeSpec  callPaloAltoAPI for the statuses and bodies a remote      *)
(*               answers with;                                             *)
(*   SearchSpec  GenerateReport, FilterReportData and SearchAllReports.    *)
(***************************************************************************)
EXTENDS Integers, Sequences, FiniteSets, TLC

\* ------------------------------------------------------------------ bounds
\* number of report types of ReportTypeUniverse a batch call may name
NumTypes == 4
\* number of report types of ReportTypeUniverse the sequential calls name
NumSessionTypes == 3
\* seconds the wall clock advances during a session of exports
MaxExportTime == 1
\* minutes the wall clock advances during a session of connectivity probes
MaxProbeMinutes == 6
\* items of the longest sequence generateCSV is applied to
MaxCsvItems == 3

\* ------------------------------------------------------- program constants
\* capacity of the semaphore channel, make(chan struct{}, 3)
SemaphoreCap == 3
\* 5*time.Minute, in seconds: how long a connectivity verdict is served
FiveMinutes == 300
\* gcm.NonceSize(), in bytes
NonceSize == 12

\* ----------------------------------------------------------------- strings
\* A Go string that the code only compares is a TLA+ string.  A string the
\* code searches or lower-cases is a sequence of one-character strings.  A
\* report type / cache key is a sequence of tokens, so that the key
\* reportType + "_filtered" is a concatenation and HasSuffix is a test.

ToLowerCh(c) == CASE c = "A" -> "a" [] c = "B" -> "b" [] c = "T" -> "t" [] OTHER -> c

ToLower(s) == [i \in 1..Len(s) |-> ToLowerCh(s[i])]

Contains(s, sub) ==
    \E i \in 0..(Len(s) - Len(sub)) : SubSeq(s, i + 1, i + Len(sub)) = sub

FilteredSuffix == "_filtered"

\* (variant: the filtered view is stored under the key of its parent)
FilteredKeyOfParent(reportType) == reportType

\* reportType + "_filtered"
FilteredKey(reportType) == reportType \o <<FilteredSuffix>>

HasFilteredSuffix(key) == Len(key) > 0 /\ key[Len(key)] = FilteredSuffix

\* ------------------------------------------------------------------ values
\* interface{} values held in a decoded payload
StrVal(s) == [t |-> "str", s |-> s]
BoolVal(b) == [t |-> "bool", b |-> b]

\* fmt.Sprintf("%v", v)
Sprint(v) ==
    CASE v.t = "str" -> v.s
      [] v.t = "bool" -> IF v.b THEN <<"t", "r", "u", "e">> ELSE <<"f", "a", "l", "s", "e">>

\* the two shapes a cache entry has: map[string]interface{} and []interface{}
MapPayload(fields) == [shape |-> "map", fields |-> fields]
SeqPayload(items) == [shape |-> "seq", items |-> items]

\* decoded JSON objects the remote may answer with
ObjA == [name |-> StrVal(<<"T", "a">>), action |-> StrVal(<<"a", "b">>)]
ObjB == [name |-> StrVal(<<"b">>), enabled |-> BoolVal(TRUE)]
JSONObjects == {ObjA}

\* finite maps (Go maps) as functions
Put(m, k, v) == [x \in (DOMAIN m) \cup {k} |-> IF x = k THEN v ELSE m[x]]

\* (variant: an existing cache entry is kept)
CacheStoreKeepFirst(m, k, v) == IF k \in DOMAIN m THEN m ELSE Put(m, k, v)

\* a.reportData[key] = value
CacheStore(m, k, v) == Put(m, k, v)
EmptyMap == [x \in {} |-> 0]

\* ---------------------------------------------------------------- registry
SummaryKey == <<"_summary">>

\* the report types calls are made with: registry keys and unknown names
ReportTypeUniverse ==
    << <<"traffic">>, <<"systemInfo">>, SummaryKey, <<"bogus">>, <<"nope">>, <<"zones">>, <<"tags">> >>

ReportTypes == {ReportTypeUniverse[i] : i \in 1..NumTypes}

SessionTypes == {ReportTypeUniverse[i] : i \in 1..NumSessionTypes}

\* getEndpointForReportType: the registry (the entries of the modelled types);
\* a missing key yields Go's zero value ""
getEndpointForReportType(reportType) ==
    CASE reportType = <<"traffic">> -> "/restapi/v11.0/Objects/TrafficLogs"
      [] reportType = <<"zones">> -> "/restapi/v11.0/Network/Zones"
      [] reportType = <<"tags">> -> "/restapi/v11.0/Objects/Tags"
      [] reportType = <<"systemInfo">> -> "/api/?type=op&cmd=<show><s><info></info></s></show>"
      [] OTHER -> ""

\* strings.Contains(endpoint, "?") for the registry paths
EndpointHasQuery(path) == path = "/api/?type=op&cmd=<show><s><info></info></s></show>"

\* ------------------------------------------------------------- HTTP client
\* what the network and the remote API do with one request
Responses ==
    {[kind |-> "neterr"],
     [kind |-> "http", status |-> 500, body |-> [fmt |-> "junk", text |-> <<"oops">>]]}
    \cup {[kind |-> "http", status |-> 200, body |-> [fmt |-> "json", obj |-> o]] : o \in JSONObjects}
    \cup {[kind |-> "http", status |-> 200, body |-> [fmt |-> "xml", text |-> <<"<response", "x">>]],
          [kind |-> "http", status |-> 200, body |-> [fmt |-> "junk", text |-> <<"oops">>]]}

Ok(data) == [err |-> "", data |-> data]
Fail(msg) == [err |-> msg]

\* fmt.Errorf("API returned error status: %d", resp.StatusCode)
FailStatus(status) == [err |-> "API returned error status", status |-> status]

\* json.Unmarshal(body, &result), result a nil map[string]interface{}: a
\* JSON object fills the map, the JSON value null leaves it nil without an
\* error, any other text is an error
Unmarshal(body) ==
    CASE body.fmt = "json" -> [err |-> FALSE, result |-> body.obj]
      [] body.fmt = "null" -> [err |-> FALSE, result |-> EmptyMap]
      [] OTHER -> [err |-> TRUE]

\* strings.Contains(string(body), "<response")
HasLegacyMarker(text) == \E i \in 1..Len(text) : text[i] = "<response"

\* callPaloAltoAPI after the request was sent: status check, JSON decode,
\* legacy XML fallback
callPaloAltoAPI(resp) ==
    IF resp.kind = "neterr" THEN Fail("error making request")
    ELSE IF resp.status # 200 THEN FailStatus(resp.status)
    ELSE IF ~Unmarshal(resp.body).err THEN Ok(MapPayload(Unmarshal(resp.body).result))
    ELSE IF HasLegacyMarker(resp.body.text)
         THEN Ok(MapPayload([result |-> StrVal(resp.body.text)]))
    ELSE Fail("error parsing response")

\* (variant: the date parameters are sent as soon as one bound is given)
BuildRequestEitherDate(url, key, endpoint, startDate, endDate) ==
    [url |-> url, path |-> endpoint, header |-> key,
     query |-> IF startDate # "" \/ endDate # ""
               THEN <<IF EndpointHasQuery(endpoint) THEN "&" ELSE "?",
                      "start-time", startDate, "end-time", endDate>>
               ELSE <<>>]

\* the request GenerateReport builds: base URL, endpoint, date parameters
\* (only when both bounds are given), credential header
BuildRequest(url, key, endpoint, startDate, endDate) ==
    [url |-> url, path |-> endpoint, header |-> key,
     query |-> IF startDate # "" /\ endDate # ""
               THEN <<IF EndpointHasQuery(endpoint) THEN "&" ELSE "?",
                      "start-time", startDate, "end-time", endDate>>
               ELSE <<>>]

\* (variant: the endpoint is resolved before the credentials are looked at)
GenerateReportFetchLookupFirst(url, key, reportType, startDate, endDate, resp) ==
    IF getEndpointForReportType(reportType) = ""
    THEN [out |-> Fail("unknown report type"), reqs |-> {},
          lookups |-> <<getEndpointForReportType(reportType)>>]
    ELSE IF url = "" \/ key = ""
    THEN [out |-> Fail("API URL and Key must be configured first"), reqs |-> {},
          lookups |-> <<getEndpointForReportType(reportType)>>]
    ELSE [out |-> callPaloAltoAPI(resp),
          reqs |-> {BuildRequest(url, key, getEndpointForReportType(reportType), startDate, endDate)},
          lookups |-> <<getEndpointForReportType(reportType)>>]

\* GenerateReport up to (not including) the cache write: the outcome, the
\* requests issued and what the registry lookups returned, given what the
\* network answers
GenerateReportFetch(url, key, reportType, startDate, endDate, resp) ==
    IF url = "" \/ key = ""
    THEN [out |-> Fail("API URL and Key must be configured first"), reqs |-> {}, lookups |-> <<>>]
    ELSE IF getEndpointForReportType(reportType) = ""
    THEN [out |-> Fail("unknown report type"), reqs |-> {},
          lookups |-> <<getEndpointForReportType(reportType)>>]
    ELSE [out |-> callPaloAltoAPI(resp),
          reqs |-> {BuildRequest(url, key, getEndpointForReportType(reportType), startDate, endDate)},
          lookups |-> <<getEndpointForReportType(reportType)>>]

\* ----------------------------------------------------------------- filters
\* FilterReportData: items of a cache entry
FilterItems(data) == IF data.shape = "map" THEN <<data.fields>> ELSE data.items

\* one item against all filters (an empty filter value is skipped)
ItemMatches(item, filters) ==
    \A field \in DOMAIN filters :
        filters[field] = <<>>
        \/ (field \in DOMAIN item
            /\ Contains(ToLower(Sprint(item[field])), ToLower(filters[field])))

RECURSIVE SelectItems(_, _)
SelectItems(items, filters) ==
    IF items = <<>> THEN <<>>
    ELSE IF ItemMatches(Head(items), filters)
         THEN <<Head(items)>> \o SelectItems(Tail(items), filters)
         ELSE SelectItems(Tail(items), filters)

\* filter arguments the calls are made with
FilterArgs ==
    {EmptyMap, [name |-> <<"t">>], [name |-> <<"B">>], [action |-> <<"b">>], [name |-> <<>>]}

\* ------------------------------------------------------------------- state
VARIABLES
    \* App fields
    apiURL, apiKey, reportData, maxRows, reportFormat, apiStatus, lastAPICheck,
    \* durable storage: the settings file and the Reports directory
    settingsFile, files,
    \* durable storage of the Reporting server: config/config.json
    configFile,
    \* history: the artifact paths that were written again after they existed
    overwritten,
    \* history: when TestAPIConnection last sent a request, and whether
    \* SaveAPISettings was called since
    lastProbe,
    \* wall clock, in seconds
    now,
    \* what the last call of a bound method returned
    ret,
    \* history: the payload of the last successful fetch of each report type,
    \* and the parent payload each filtered view was computed from
    lastFetched, filteredFrom,
    \* BatchExportReports: arguments and position of the calling goroutine
    bargs, bpc,
    \* position and locals (err, reportData, filePath) of each task goroutine
    pc, tloc,
    \* semaphore channel (number of buffered tokens), mutex holder, WaitGroup
    semaphore, mu, wg,
    \* results map and the two counters
    results, errorCount, successCount,
    \* number of HTTP requests the tasks issued, and the cache at call time
    fetches, cache0,
    \* the runtime aborted the process (fatal error)
    crashed

sessionVars == <<apiURL, apiKey, reportData, maxRows, reportFormat, apiStatus,
                 lastAPICheck, settingsFile, files, configFile, lastProbe, overwritten, now, ret,
                 lastFetched, filteredFrom>>

batchVars == <<bargs, bpc, pc, tloc, semaphore, mu, wg, results, errorCount,
               successCount, fetches, cache0, crashed>>

vars == <<sessionVars, batchVars>>

NoRet == [op |-> "none"]
NoTask == <<"no task">>
ZeroTime == -1
NoData == [shape |-> "none"]
NoLocals == [err |-> "", data |-> NoData, path |-> <<>>]
NoProbe == [at |-> ZeroTime, saved |-> FALSE, url |-> "", key |-> "", status |-> "unknown"]

\* the goroutine-side variables before any batch call
BatchIdle ==
    /\ bargs = [types |-> {}, format |-> "", startDate |-> "", endDate |-> ""]
    /\ bpc = "idle"
    /\ pc = [t \in ReportTypes |-> "none"]
    /\ tloc = [t \in ReportTypes |-> NoLocals]
    /\ semaphore = 0
    /\ mu = NoTask
    /\ wg = 0
    /\ results = EmptyMap
    /\ errorCount = 0
    /\ successCount = 0
    /\ fetches = 0
    /\ cache0 = EmptyMap
    /\ crashed = FALSE

\* NewApp
Init ==
    /\ apiURL = ""
    /\ apiKey = ""
    /\ reportData = EmptyMap
    /\ maxRows = 1000
    /\ reportFormat = "standard"
    /\ apiStatus = "unknown"
    /\ lastAPICheck = ZeroTime
    /\ settingsFile = [exists |-> FALSE]
    /\ files = {}
    /\ configFile = [exists |-> FALSE]
    /\ lastProbe = NoProbe
    /\ overwritten = {}
    /\ now = 0
    /\ ret = NoRet
    /\ lastFetched = EmptyMap
    /\ filteredFrom = EmptyMap
    /\ BatchIdle

\* ------------------------------------------------------------- credentials
URLs == {"", "https://fw"}
Keys == {"", "K1"}
Nonces == {"n1", "n2"}

\* the credentials the vault is exercised with
VaultKeys == Keys \cup {"K2"}

\* a byte string is a sequence; the nonce drawn from rand.Reader is NonceSize
\* bytes
NonceBytes(nonce) == [i \in 1..NonceSize |-> nonce]

\* base64.StdEncoding: the encoded text of a byte string, "" for no bytes;
\* text that is not an encoding does not decode
Base64Encode(bytes) == [b64 |-> bytes]
IsBase64(text) == "b64" \in DOMAIN text
Base64Decode(text) == text.b64
EmptyString == Base64Encode(<<>>)
NotBase64 == [raw |-> "%%%"]

\* AES-GCM under the fixed application key.  gcm.Seal(nonce, nonce, key, nil):
\* the ciphertext and tag bind the nonce and the plaintext, and are appended
\* to the nonce
Seal(nonce, plaintext) == nonce \o <<[sealed |-> <<nonce, plaintext>>, intact |-> TRUE]>>

\* (variant: the ciphertext is opened without authenticating it)
OpenUnauthenticated(nonce, ciphertext) ==
    IF Len(ciphertext) = 1 THEN Ok(ciphertext[1].sealed[2])
    ELSE Fail("cipher: message authentication failed")

\* gcm.Open(nil, nonce, ciphertext, nil): the plaintext, if the ciphertext and
\* tag are the ones sealed under this nonce
Open(nonce, ciphertext) ==
    IF Len(ciphertext) = 1 /\ ciphertext[1].intact /\ ciphertext[1].sealed[1] = nonce
    THEN Ok(ciphertext[1].sealed[2])
    ELSE Fail("cipher: message authentication failed")

\* encryptAPIKey(key), given the nonce read from rand.Reader
encryptAPIKey(key, nonce) ==
    IF key = "" THEN EmptyString
    ELSE Base64Encode(Seal(NonceBytes(nonce), key))

\* decryptAPIKey(encryptedKey)
decryptAPIKey(encryptedKey) ==
    IF encryptedKey = EmptyString THEN Ok("")
    ELSE IF ~IsBase64(encryptedKey) THEN Fail("illegal base64 data")
    ELSE IF Len(Base64Decode(encryptedKey)) < NonceSize THEN Fail("ciphertext too short")
    ELSE Open(SubSeq(Base64Decode(encryptedKey), 1, NonceSize),
              SubSeq(Base64Decode(encryptedKey), NonceSize + 1, Len(Base64Decode(encryptedKey))))

\* saveSettings: the Settings struct written to the settings file
SettingsOf(url, key, rows, format, nonce) ==
    [exists |-> TRUE, api_url |-> url, encrypted_key |-> encryptAPIKey(key, nonce),
     max_rows |-> rows, report_format |-> format]

\* SaveAPISettings(url, key): fields first, then persistence; the cached
\* connectivity status is reset only when persistence succeeded
SaveAPISettings(url, key) ==
    /\ apiURL' = url
    /\ apiKey' = key
    /\ \/ \E nonce \in Nonces :
             /\ settingsFile' = SettingsOf(url, key, maxRows, reportFormat, nonce)
             /\ apiStatus' = "unknown"
             /\ lastAPICheck' = ZeroTime
             /\ ret' = [op |-> "SaveAPISettings", err |-> ""]
       \/ /\ ret' = [op |-> "SaveAPISettings", err |-> "failed to write settings file"]
          /\ UNCHANGED <<settingsFile, apiStatus, lastAPICheck>>
    /\ lastProbe' = IF lastProbe = NoProbe THEN NoProbe ELSE [lastProbe EXCEPT !.saved = TRUE]
    /\ UNCHANGED <<reportData, maxRows, reportFormat, files, configFile, overwritten, now,
                   lastFetched, filteredFrom>>
    /\ UNCHANGED batchVars

\* ---------------------------------------------------------- GenerateReport
Dates == {"", "2024/01/01"}

\* GenerateReport(reportType, startDate, endDate), called from the UI
GenerateReport(reportType, startDate, endDate) ==
    \E resp \in Responses :
        LET f == GenerateReportFetch(apiURL, apiKey, reportType, startDate, endDate, resp) IN
        /\ ret' = [op |-> "GenerateReport", reportType |-> reportType,
                   err |-> f.out.err, reqs |-> f.reqs, lookups |-> f.lookups,
                   data |-> IF f.out.err = "" THEN f.out.data ELSE NoData]
        /\ IF f.out.err = ""
           THEN /\ reportData' = CacheStore(reportData, reportType, f.out.data)
                /\ lastFetched' = Put(lastFetched, reportType, f.out.data)
           ELSE UNCHANGED <<reportData, lastFetched>>
        /\ UNCHANGED <<apiURL, apiKey, maxRows, reportFormat, apiStatus, lastAPICheck,
                       settingsFile, files, configFile, lastProbe, overwritten, now, filteredFrom>>
        /\ UNCHANGED batchVars

\* GenerateReport(reportType, startDate, endDate), the arguments of the call
\* kept with what it returns
GenerateReportDated(reportType, startDate, endDate) ==
    \E resp \in Responses :
        LET f == GenerateReportFetch(apiURL, apiKey, reportType, startDate, endDate, resp) IN
        /\ ret' = [op |-> "GenerateReport", reportType |-> reportType,
                   startDate |-> startDate, endDate |-> endDate,
                   err |-> f.out.err, reqs |-> f.reqs, lookups |-> f.lookups,
                   data |-> IF f.out.err = "" THEN f.out.data ELSE NoData]
        /\ IF f.out.err = ""
           THEN /\ reportData' = CacheStore(reportData, reportType, f.out.data)
                /\ lastFetched' = Put(lastFetched, reportType, f.out.data)
           ELSE UNCHANGED <<reportData, lastFetched>>
        /\ UNCHANGED <<apiURL, apiKey, maxRows, reportFormat, apiStatus, lastAPICheck,
                       settingsFile, files, configFile, lastProbe, overwritten, now, filteredFrom>>
        /\ UNCHANGED batchVars

DatedNext ==
    \E rt \in SessionTypes, st \in Dates, en \in Dates : GenerateReportDated(rt, st, en)

\* ---------------------------------------------------------- callPaloAltoAPI
\* the bodies a remote answers with: JSON objects, the JSON value null, a
\* JSON array without and with the legacy marker in it, legacy XML with the
\* marker first and after a prolog, text that is neither, nothing
Bodies ==
    {[fmt |-> "json", obj |-> ObjA], [fmt |-> "json", obj |-> ObjB],
     [fmt |-> "null", text |-> <<"null">>],
     [fmt |-> "array", text |-> <<"[", "1", "]">>],
     [fmt |-> "array", text |-> <<"[", "\"", "<response", ">", "\"", "]">>],
     [fmt |-> "xml", text |-> <<"<response", "x">>],
     [fmt |-> "xml", text |-> <<"<?xml", "?>", "<response", "x">>],
     [fmt |-> "junk", text |-> <<"oops">>],
     [fmt |-> "junk", text |-> <<>>]}

Statuses == {200, 201, 204, 401, 404, 500}

DecodeResponses ==
    {[kind |-> "neterr"]}
    \cup {[kind |-> "http", status |-> st, body |-> b] : st \in Statuses, b \in Bodies}

\* one call callPaloAltoAPI(endpoint) of a configured session: the request
\* sent and what the call returns for the answer of the remote
CallAPI(endpoint, resp) ==
    /\ ret' = [op |-> "callPaloAltoAPI",
               req |-> BuildRequest(apiURL, apiKey, endpoint, "", ""),
               resp |-> resp, out |-> callPaloAltoAPI(resp)]
    /\ UNCHANGED <<apiURL, apiKey, reportData, maxRows, reportFormat, apiStatus, lastAPICheck,
                   settingsFile, files, configFile, lastProbe, overwritten, now, lastFetched,
                   filteredFrom>>
    /\ UNCHANGED batchVars

DecodeNext ==
    \E rt \in {<<"traffic">>, <<"zones">>, <<"tags">>, <<"systemInfo">>}, resp \in DecodeResponses :
        CallAPI(getEndpointForReportType(rt), resp)

\* -------------------------------------------------------- FilterReportData
\* FilterReportData(reportType, filters)
FilterReportData(reportType, filters) ==
    /\ IF reportType \notin DOMAIN reportData
       THEN /\ ret' = [op |-> "FilterReportData", reportType |-> reportType,
                       err |-> "no data available for report type"]
            /\ UNCHANGED <<reportData, filteredFrom>>
       ELSE LET data == reportData[reportType]
                items == FilterItems(data)
                filtered == SelectItems(items, filters) IN
            IF DOMAIN filters = {}
            THEN /\ ret' = [op |-> "FilterReportData", reportType |-> reportType, err |-> "",
                            filters |-> filters,
                            result |-> data, count |-> Len(items), filtered |-> FALSE]
                 /\ UNCHANGED <<reportData, filteredFrom>>
            ELSE /\ ret' = [op |-> "FilterReportData", reportType |-> reportType, err |-> "",
                            filters |-> filters,
                            result |-> SeqPayload(filtered), count |-> Len(filtered),
                            filtered |-> TRUE]
                 /\ reportData' = CacheStore(reportData, FilteredKey(reportType), SeqPayload(filtered))
                 /\ filteredFrom' = Put(filteredFrom, FilteredKey(reportType), data)
    /\ UNCHANGED <<apiURL, apiKey, maxRows, reportFormat, apiStatus, lastAPICheck,
                   settingsFile, files, configFile, lastProbe, overwritten, now, lastFetched>>
    /\ UNCHANGED batchVars

\* -------------------------------------------------------- SearchAllReports
\* (variant: the values are compared with the term as it was typed)
EntryHasTermCaseSensitive(item, term) ==
    \E field \in DOMAIN item : Contains(Sprint(item[field]), term)

\* some value of the entry, formatted and lower-cased, contains the
\* lower-cased term
EntryHasTerm(item, term) ==
    \E field \in DOMAIN item : Contains(ToLower(Sprint(item[field])), ToLower(term))

\* the matches of one cache entry: the mapping itself, or the items of the
\* sequence that have the term, in their order
RECURSIVE SearchMatches(_, _)
SearchMatches(items, term) ==
    IF items = <<>> THEN <<>>
    ELSE IF EntryHasTerm(Head(items), term)
         THEN <<Head(items)>> \o SearchMatches(Tail(items), term)
         ELSE SearchMatches(Tail(items), term)

\* the results map: an entry for every scanned key with a match
SearchResults(cache, term) ==
    [k \in {key \in DOMAIN cache :
                /\ ~HasFilteredSuffix(key)
                /\ SearchMatches(FilterItems(cache[key]), term) # <<>>} |->
        [matches |-> SearchMatches(FilterItems(cache[k]), term),
         count |-> Len(SearchMatches(FilterItems(cache[k]), term))]]

\* search terms the calls are made with
SearchTerms == {<<>>, <<"t">>, <<"T", "A">>, <<"x">>, <<"z">>}

\* SearchAllReports(searchTerm)
SearchAllReports(term) ==
    /\ IF term = <<>>
       THEN ret' = [op |-> "SearchAllReports", err |-> "search term cannot be empty"]
       ELSE ret' = [op |-> "SearchAllReports", err |-> "",
                    results |-> SearchResults(reportData, term),
                    term |-> term,
                    reports_searched |-> Cardinality(DOMAIN reportData),
                    reports_with_matches |-> Cardinality(DOMAIN SearchResults(reportData, term)),
                    found |-> Cardinality(DOMAIN SearchResults(reportData, term)) > 0]
    /\ UNCHANGED <<apiURL, apiKey, reportData, maxRows, reportFormat, apiStatus, lastAPICheck,
                   settingsFile, files, configFile, lastProbe, overwritten, now, lastFetched,
                   filteredFrom>>
    /\ UNCHANGED batchVars

\* a session of fetches, filters and searches
SearchNext ==
    \/ \E rt \in SessionTypes : GenerateReport(rt, "", "")
    \/ \E rt \in SessionTypes, f \in FilterArgs : FilterReportData(rt, f)
    \/ \E term \in SearchTerms : SearchAllReports(term)

\* ------------------------------------------------- the sequential session
Next ==
    \/ \E url \in URLs, key \in Keys : SaveAPISettings(url, key)
    \/ \E rt \in SessionTypes, s \in Dates, e \in Dates : GenerateReport(rt, s, e)
    \/ \E rt \in SessionTypes, f \in FilterArgs : FilterReportData(rt, f)

Spec == Init /\ [][Next]_vars

\* ------------------------------------------------------ BatchExportReports
\* the (format, startDate, endDate) arguments batch calls are made with
BatchCallArgs ==
    {<<"csv", "", "">>, <<"pdf", "2024/01/01", "2024/01/02">>, <<"json", "", "">>}

\* what the network does with a task's request: it fails, or the remote
\* answers 200 with a JSON object
BatchResponses ==
    {[kind |-> "neterr"], [kind |-> "http", status |-> 200, body |-> [fmt |-> "json", obj |-> ObjA]]}

\* the session a batch call starts in: settings saved earlier (with or
\* without a key), the cache empty or holding an earlier fetch
BatchInit ==
    /\ apiURL = "https://fw"
    /\ apiKey \in Keys
    /\ reportData \in {EmptyMap, [k \in {<<"traffic">>} |-> MapPayload([result |-> StrVal(<<"<response", "x">>)])]}
    /\ lastFetched = reportData
    /\ maxRows = 1000
    /\ reportFormat = "standard"
    /\ apiStatus = "unknown"
    /\ lastAPICheck = ZeroTime
    /\ settingsFile = SettingsOf(apiURL, apiKey, maxRows, reportFormat, "n1")
    /\ files = {}
    /\ configFile = [exists |-> FALSE]
    /\ lastProbe = NoProbe
    /\ overwritten = {}
    /\ now = 0
    /\ ret = [op |-> "SaveAPISettings", err |-> ""]
    /\ filteredFrom = EmptyMap
    /\ BatchIdle

\* the pc values between "semaphore <- struct{}{}" and "<-semaphore"
InCycle == {"gen", "st1", "w1", "st2", "w2", "exp", "expio", "lock", "cs", "rel"}

\* the pc values inside a write of the a.reportData map
InCacheWrite == {"w1", "w2"}

\* (variant: the channel admits one sender more than its capacity)
CanSendOffByOne(n) == n <= SemaphoreCap

\* a buffered channel of capacity SemaphoreCap accepts a send
CanSend(n) == n < SemaphoreCap

\* (variant: Wait returns while one task is still running)
WaitDoneEarly(counter) == counter <= 1

\* the mutex is free
\* (variant: Lock never blocks)
CanLockAlways(holder) == TRUE

CanLock(holder) == holder = NoTask

\* wg.Wait() returns
WaitDone(counter) == counter = 0

\* (variant: the format is not validated)
BatchValidateNoFormat(types, format) ==
    IF types = {} THEN "no report types specified" ELSE ""

\* argument validation, before any work
BatchValidate(types, format) ==
    IF types = {} THEN "no report types specified"
    ELSE IF format # "csv" /\ format # "pdf" THEN "invalid format: must be 'csv' or 'pdf'"
    ELSE ""

\* BatchExportReports(reportTypes, format, startDate, endDate): entry
BatchCall(types, format, startDate, endDate) ==
    /\ bpc = "idle"
    /\ bargs' = [types |-> types, format |-> format, startDate |-> startDate, endDate |-> endDate]
    /\ cache0' = reportData
    /\ IF BatchValidate(types, format) # ""
       THEN /\ bpc' = "returned"
            /\ ret' = [op |-> "BatchExportReports", err |-> BatchValidate(types, format)]
       ELSE /\ bpc' = "dispatch"
            /\ UNCHANGED ret
    /\ UNCHANGED <<apiURL, apiKey, reportData, maxRows, reportFormat, apiStatus, lastAPICheck,
                   settingsFile, files, configFile, lastProbe, overwritten, now, lastFetched, filteredFrom>>
    /\ UNCHANGED <<pc, tloc, semaphore, mu, wg, results, errorCount, successCount,
                   fetches, crashed>>

\* one iteration of the dispatch loop: wg.Add(1); go func(rt) {...}(reportType)
Dispatch(t) ==
    /\ bpc = "dispatch" /\ ~crashed
    /\ t \in bargs.types /\ pc[t] = "none"
    /\ wg' = wg + 1
    /\ pc' = [pc EXCEPT ![t] = "wait"]
    /\ UNCHANGED sessionVars
    /\ UNCHANGED <<bargs, bpc, tloc, semaphore, mu, results, errorCount, successCount,
                   fetches, cache0, crashed>>

\* semaphore <- struct{}{}
Acquire(t) ==
    /\ pc[t] = "wait" /\ ~crashed
    /\ CanSend(semaphore)
    /\ semaphore' = semaphore + 1
    /\ pc' = [pc EXCEPT ![t] = "gen"]
    /\ UNCHANGED sessionVars
    /\ UNCHANGED <<bargs, bpc, tloc, mu, wg, results, errorCount, successCount,
                   fetches, cache0, crashed>>

\* a.GenerateReport(rt, startDate, endDate) up to its cache write
TaskFetch(t) ==
    /\ pc[t] = "gen" /\ ~crashed
    /\ \E resp \in BatchResponses :
        LET f == GenerateReportFetch(apiURL, apiKey, t, bargs.startDate, bargs.endDate, resp) IN
        /\ fetches' = fetches + Cardinality(f.reqs)
        /\ IF f.out.err # ""
           THEN /\ tloc' = [tloc EXCEPT ![t].err = f.out.err]
                /\ pc' = [pc EXCEPT ![t] = "lock"]
           ELSE /\ tloc' = [tloc EXCEPT ![t].data = f.out.data]
                /\ pc' = [pc EXCEPT ![t] = "st1"]
    /\ UNCHANGED sessionVars
    /\ UNCHANGED <<bargs, bpc, semaphore, mu, wg, results, errorCount, successCount,
                   cache0, crashed>>

\* another goroutine is inside a write of the map
RacesWithWriter(t) == \E u \in ReportTypes \ {t} : pc[u] \in InCacheWrite

\* a map access that overlaps a write is a data race: the runtime may detect
\* it and abort the process ("fatal error: concurrent map writes",
\* "concurrent map read and map write"); otherwise the access goes through
RaceAbort(t) ==
    /\ RacesWithWriter(t)
    /\ crashed' = TRUE
    /\ UNCHANGED <<pc, tloc>>

\* start of "a.reportData[reportType] = data" (GenerateReport) and of
\* "a.reportData[rt] = reportData" (the task): no lock is taken
BeginCacheWrite(t) ==
    /\ pc[t] \in {"st1", "st2"} /\ ~crashed
    /\ \/ /\ pc' = [pc EXCEPT ![t] = IF pc[t] = "st1" THEN "w1" ELSE "w2"]
          /\ UNCHANGED <<tloc, crashed>>
       \/ RaceAbort(t)
    /\ UNCHANGED sessionVars
    /\ UNCHANGED <<bargs, bpc, semaphore, mu, wg, results, errorCount, successCount,
                   fetches, cache0>>

\* the map assignment takes effect
EndCacheWrite(t) ==
    /\ pc[t] \in InCacheWrite /\ ~crashed
    /\ reportData' = CacheStore(reportData, t, tloc[t].data)
    /\ lastFetched' = Put(lastFetched, t, tloc[t].data)
    /\ pc' = [pc EXCEPT ![t] = IF pc[t] = "w1" THEN "st2" ELSE "exp"]
    /\ UNCHANGED <<apiURL, apiKey, maxRows, reportFormat, apiStatus, lastAPICheck,
                   settingsFile, files, configFile, lastProbe, overwritten, now, ret, filteredFrom>>
    /\ UNCHANGED <<bargs, bpc, tloc, semaphore, mu, wg, results, errorCount, successCount,
                   fetches, cache0, crashed>>

\* ExportToCSV / ExportToPDF: "data, ok := a.reportData[reportType]", no lock
ExportRead(t) ==
    /\ pc[t] = "exp" /\ ~crashed
    /\ \/ /\ t \in DOMAIN reportData
          /\ pc' = [pc EXCEPT ![t] = "expio"]
          /\ tloc' = [tloc EXCEPT ![t].data = reportData[t]]
          /\ UNCHANGED crashed
       \/ /\ t \notin DOMAIN reportData
          /\ pc' = [pc EXCEPT ![t] = "lock"]
          /\ tloc' = [tloc EXCEPT ![t].err = "no data available for report type"]
          /\ UNCHANGED crashed
       \/ RaceAbort(t)
    /\ UNCHANGED sessionVars
    /\ UNCHANGED <<bargs, bpc, semaphore, mu, wg, results, errorCount, successCount,
                   fetches, cache0>>

\* the artifact path: Reports/{reportType}_{timestamp}.{ext}
ArtifactPath(reportType, time, ext) ==
    [dir |-> "Reports", reportType |-> reportType, timestamp |-> time, ext |-> ext]

\* generateCSV / generatePDF writing the file: it is created, or directory
\* or file creation fails
ExportWrite(t) ==
    /\ pc[t] = "expio" /\ ~crashed
    /\ \/ /\ files' = files \cup {ArtifactPath(t, now, bargs.format)}
          /\ overwritten' = overwritten \cup (files \cap {ArtifactPath(t, now, bargs.format)})
          /\ tloc' = [tloc EXCEPT ![t].path = ArtifactPath(t, now, bargs.format)]
       \/ /\ tloc' = [tloc EXCEPT ![t].err = "open Reports: permission denied"]
          /\ UNCHANGED <<files, overwritten>>
    /\ pc' = [pc EXCEPT ![t] = "lock"]
    /\ UNCHANGED <<apiURL, apiKey, reportData, maxRows, reportFormat, apiStatus, lastAPICheck,
                   settingsFile, configFile, lastProbe, now, ret, lastFetched, filteredFrom>>
    /\ UNCHANGED <<bargs, bpc, semaphore, mu, wg, results, errorCount, successCount,
                   fetches, cache0, crashed>>

\* mu.Lock()
Lock(t) ==
    /\ pc[t] = "lock" /\ ~crashed
    /\ CanLock(mu)
    /\ mu' = t
    /\ pc' = [pc EXCEPT ![t] = "cs"]
    /\ UNCHANGED sessionVars
    /\ UNCHANGED <<bargs, bpc, tloc, semaphore, wg, results, errorCount, successCount,
                   fetches, cache0, crashed>>

\* (variant: the error branch is missed)
ResultEntryAlwaysSuccess(loc) == [success |-> TRUE, path |-> loc.path]

\* the entry a task records for its report type
ResultEntry(loc) ==
    IF loc.err # "" THEN [success |-> FALSE, error |-> loc.err]
    ELSE [success |-> TRUE, path |-> loc.path]

\* results[rt] = ...; errorCount++ / successCount++; mu.Unlock()
Record(t) ==
    /\ pc[t] = "cs" /\ ~crashed
    /\ results' = Put(results, t, ResultEntry(tloc[t]))
    /\ IF tloc[t].err # ""
       THEN errorCount' = errorCount + 1 /\ UNCHANGED successCount
       ELSE successCount' = successCount + 1 /\ UNCHANGED errorCount
    /\ mu' = NoTask
    /\ pc' = [pc EXCEPT ![t] = "rel"]
    /\ UNCHANGED sessionVars
    /\ UNCHANGED <<bargs, bpc, tloc, semaphore, wg, fetches, cache0, crashed>>

\* deferred: <-semaphore
Release(t) ==
    /\ pc[t] = "rel" /\ ~crashed
    /\ semaphore' = semaphore - 1
    /\ pc' = [pc EXCEPT ![t] = "fin"]
    /\ UNCHANGED sessionVars
    /\ UNCHANGED <<bargs, bpc, tloc, mu, wg, results, errorCount, successCount,
                   fetches, cache0, crashed>>

\* deferred: wg.Done()
Done(t) ==
    /\ pc[t] = "fin" /\ ~crashed
    /\ wg' = wg - 1
    /\ pc' = [pc EXCEPT ![t] = "done"]
    /\ UNCHANGED sessionVars
    /\ UNCHANGED <<bargs, bpc, tloc, semaphore, mu, results, errorCount, successCount,
                   fetches, cache0, crashed>>

\* the summary entry
Summary ==
    [total |-> Cardinality(bargs.types), successful |-> successCount, failed |-> errorCount,
     format |-> bargs.format, date_range |-> [start |-> bargs.startDate, end |-> bargs.endDate],
     timestamp |-> now]

\* wg.Wait() returned: results["_summary"] = summary; return results, nil
BatchReturn ==
    /\ bpc = "dispatch" /\ ~crashed
    /\ \A t \in bargs.types : pc[t] # "none"
    /\ WaitDone(wg)
    /\ results' = Put(results, SummaryKey, Summary)
    /\ ret' = [op |-> "BatchExportReports", err |-> "", results |-> results']
    /\ bpc' = "returned"
    /\ UNCHANGED <<apiURL, apiKey, reportData, maxRows, reportFormat, apiStatus, lastAPICheck,
                   settingsFile, files, configFile, lastProbe, overwritten, now, lastFetched, filteredFrom>>
    /\ UNCHANGED <<bargs, pc, tloc, semaphore, mu, wg, errorCount, successCount,
                   fetches, cache0, crashed>>

TaskStep(t) ==
    \/ Acquire(t)
    \/ TaskFetch(t)
    \/ BeginCacheWrite(t)
    \/ EndCacheWrite(t)
    \/ ExportRead(t)
    \/ ExportWrite(t)
    \/ Lock(t)
    \/ Record(t)
    \/ Release(t)
    \/ Done(t)

BatchNext ==
    \/ \E types \in SUBSET ReportTypes, args \in BatchCallArgs :
          BatchCall(types, args[1], args[2], args[3])
    \/ \E t \in ReportTypes : Dispatch(t)
    \/ \E t \in ReportTypes : TaskStep(t)
    \/ BatchReturn

BatchSpec == BatchInit /\ [][BatchNext]_vars

\* ------------------------------------------------------------ report files
\* the bytes of the field names the modelled payloads use
Bytes(name) ==
    CASE name = "Zone" -> <<90, 111, 110, 101>>
      [] name = "action" -> <<97, 99, 116, 105, 111, 110>>
      [] name = "enabled" -> <<101, 110, 97, 98, 108, 101, 100>>
      [] name = "name" -> <<110, 97, 109, 101>>
      [] name = "result" -> <<114, 101, 115, 117, 108, 116>>

\* Go's < on strings: bytewise, a proper prefix first
RECURSIVE BytesLess(_, _)
BytesLess(a, b) ==
    IF b = <<>> THEN FALSE
    ELSE IF a = <<>> THEN TRUE
    ELSE IF a[1] # b[1] THEN a[1] < b[1]
    ELSE BytesLess(Tail(a), Tail(b))

StringLess(x, y) == BytesLess(Bytes(x), Bytes(y))

\* sort.Strings(headers), headers holding each key once
RECURSIVE SortStrings(_)
SortStrings(keys) ==
    IF keys = {} THEN <<>>
    ELSE LET first == CHOOSE x \in keys : \A y \in keys \ {x} : StringLess(x, y)
         IN  <<first>> \o SortStrings(keys \ {first})

\* formatValueForCSV(val)
formatValueForCSV(val) ==
    CASE val.t = "bool" -> IF val.b THEN <<"Y", "e", "s">> ELSE <<"N", "o">>
      [] OTHER -> Sprint(val)

\* (variant: the headers are the fields of all items in every format)
CsvHeaderSetAlwaysUnion(items, format) == UNION {DOMAIN items[i] : i \in 1..Len(items)}

\* generateCSV: the header set of a sequence whose first item is a mapping
CsvHeaderSet(items, format) ==
    IF format = "complete"
    THEN UNION {DOMAIN items[i] : i \in 1..Len(items)}
    ELSE DOMAIN items[1]

\* generateCSV: one data row, an empty cell for a field the item lacks
CsvRow(item, headers) ==
    [i \in 1..Len(headers) |->
        IF headers[i] \in DOMAIN item THEN formatValueForCSV(item[headers[i]]) ELSE <<>>]

\* generateCSV: the rows written before the loop breaks
CsvRowCount(n, rows) == IF rows > 0 /\ n > rows THEN rows ELSE n

\* the cell "Note: Output limited to %d of %d rows"
LimitedNote(rowCount, total) == [limited |-> rowCount, of |-> total]

\* generateCSV once the file was created: the error returned, whether the
\* call panicked, and the records handed to the csv writer (the metadata
\* records, the header record, the data records, the note record)
GenerateCSV(data, format, rows, time) ==
    IF data.shape = "map"
    THEN [err |-> "", panicked |-> FALSE,
          preamble |-> << <<"Report Information">>, <<"Generated", time>>,
                          <<"Source", "PAN_ENGINE">>, <<"", "">> >>,
          headers |-> SortStrings(DOMAIN data.fields),
          rows |-> <<CsvRow(data.fields, SortStrings(DOMAIN data.fields))>>,
          note |-> <<>>]
    ELSE IF data.shape = "seq" /\ data.items = <<>>
    THEN [err |-> "", panicked |-> FALSE, preamble |-> <<>>,
          headers |-> <<"No Data", "Generated At">>,
          rows |-> << <<"No data available", time>> >>, note |-> <<>>]
    ELSE IF data.shape = "seq"
    THEN LET headers == SortStrings(CsvHeaderSet(data.items, format))
             rowCount == CsvRowCount(Len(data.items), rows)
         IN  [err |-> "",
              panicked |-> rowCount < Len(data.items) /\ Len(headers) = 0,
              preamble |-> << <<"Report Information">>, <<"Generated", time>>,
                              <<"Source", "PAN_ENGINE">>,
                              <<"Total Items", Len(data.items)>>, <<"", "">> >>,
              headers |-> headers,
              rows |-> [i \in 1..rowCount |-> CsvRow(data.items[i], headers)],
              note |-> IF rowCount < Len(data.items) /\ Len(headers) > 0
                       THEN << [i \in 1..Len(headers) |->
                                   IF i = 1 THEN LimitedNote(rowCount, Len(data.items))
                                   ELSE <<>>] >>
                       ELSE <<>>]
    ELSE [err |-> "unsupported data type for CSV export", panicked |-> FALSE,
          preamble |-> <<>>, headers |-> <<>>, rows |-> <<>>, note |-> <<>>]

\* generatePDF: the error returned and the Field/Value lines drawn under the
\* header line (map iteration order is not fixed: a set); a payload that is
\* not a mapping draws no line
GeneratePDF(data) ==
    IF data = NoData
    THEN [err |-> "no data provided for PDF generation", lines |-> {}]
    ELSE [err |-> "",
          lines |-> IF data.shape = "map"
                    THEN {<<k, Sprint(data.fields[k])>> : k \in DOMAIN data.fields}
                    ELSE {}]

\* ----------------------------------------------------------------- exports
\* the value of a.reportData[reportType]: nil for a missing key
CacheLookup(cache, reportType) ==
    IF reportType \in DOMAIN cache THEN cache[reportType] ELSE NoData

\* (variant: the cache lookup always reports an entry)
HasDataAlways(cache, reportType) == TRUE

\* data, ok := a.reportData[reportType]
HasData(cache, reportType) == reportType \in DOMAIN cache

\* ExportToCSV / ExportToPDF called from the UI: cache lookup, file name from
\* the wall clock (second resolution), then generateCSV / generatePDF, which
\* create (or truncate) the file or fail on the directory or the file.  A
\* cache entry is a mapping or a sequence of at most one item, for which
\* neither writer returns an error of its own or panics.
ExportCall(op, ext, reportType) ==
    /\ IF ~HasData(reportData, reportType)
       THEN /\ ret' = [op |-> op, reportType |-> reportType,
                       err |-> "no data available for report type"]
            /\ UNCHANGED <<files, overwritten>>
       ELSE LET data == CacheLookup(reportData, reportType)
                out == IF ext = "csv"
                       THEN GenerateCSV(data, reportFormat, maxRows, now)
                       ELSE GeneratePDF(data)
                created == ext = "csv" \/ out.err = ""
            IN  \/ /\ files' = IF created
                                THEN files \cup {ArtifactPath(reportType, now, ext)}
                                ELSE files
                   /\ overwritten' = IF created
                                      THEN overwritten
                                           \cup (files \cap {ArtifactPath(reportType, now, ext)})
                                      ELSE overwritten
                   /\ ret' = IF out.err = ""
                             THEN [op |-> op, reportType |-> reportType, err |-> "",
                                   path |-> ArtifactPath(reportType, now, ext),
                                   written |-> out]
                             ELSE [op |-> op, reportType |-> reportType, err |-> out.err]
                \/ /\ ret' = [op |-> op, reportType |-> reportType,
                               err |-> "open Reports: permission denied"]
                   /\ UNCHANGED <<files, overwritten>>
    /\ UNCHANGED <<apiURL, apiKey, reportData, maxRows, reportFormat, apiStatus, lastAPICheck,
                   settingsFile, configFile, lastProbe, now, lastFetched, filteredFrom>>
    /\ UNCHANGED batchVars

ExportToCSV(reportType) == ExportCall("ExportToCSV", "csv", reportType)

ExportToPDF(reportType) == ExportCall("ExportToPDF", "pdf", reportType)

\* the wall clock advances by step seconds
Tick(step, limit) ==
    /\ now + step <= limit
    /\ now' = now + step
    /\ UNCHANGED <<apiURL, apiKey, reportData, maxRows, reportFormat, apiStatus, lastAPICheck,
                   settingsFile, files, configFile, lastProbe, overwritten, ret, lastFetched, filteredFrom>>
    /\ UNCHANGED batchVars

\* a configured session whose cache is empty or holds one fetched report
ExportInit ==
    /\ apiURL = "https://fw"
    /\ apiKey = "K1"
    /\ reportData \in {EmptyMap, [k \in {<<"traffic">>} |-> MapPayload(ObjA)]}
    /\ lastFetched = reportData
    /\ maxRows = 1000
    /\ reportFormat = "standard"
    /\ apiStatus = "unknown"
    /\ lastAPICheck = ZeroTime
    /\ settingsFile = SettingsOf(apiURL, apiKey, maxRows, reportFormat, "n1")
    /\ files = {}
    /\ configFile = [exists |-> FALSE]
    /\ lastProbe = NoProbe
    /\ overwritten = {}
    /\ now = 0
    /\ ret = [op |-> "SaveAPISettings", err |-> ""]
    /\ filteredFrom = EmptyMap
    /\ BatchIdle

ExportNext ==
    \/ \E rt \in SessionTypes : ExportToCSV(rt)
    \/ \E rt \in SessionTypes : ExportToPDF(rt)
    \/ \E rt \in SessionTypes, f \in FilterArgs : FilterReportData(rt, f)
    \/ Tick(1, MaxExportTime)

ExportSpec == ExportInit /\ [][ExportNext]_vars

\* the same session, the exports called with the keys of the filtered views
ViewExportNext ==
    \/ \E rt \in SessionTypes : ExportToCSV(FilteredKey(rt))
    \/ \E rt \in SessionTypes : ExportToPDF(FilteredKey(rt))
    \/ \E rt \in SessionTypes, f \in FilterArgs : FilterReportData(rt, f)

ViewExportSpec == ExportInit /\ [][ViewExportNext]_vars

\* the same session, fetching reports with and without date bounds
DatedSpec == ExportInit /\ [][DatedNext]_vars

\* the same session, fetching, filtering and searching
SearchSpec == ExportInit /\ [][SearchNext]_vars

\* the same session, calling the remote API
DecodeSpec == ExportInit /\ [][DecodeNext]_vars

\* payloads generateCSV is applied to: mappings, and sequences of up to
\* MaxCsvItems mappings, one of which lacks a field of the first, one has a
\* field more, one has no field
CsvItems ==
    {ObjA, [name |-> StrVal(<<"b">>)], [Zone |-> BoolVal(TRUE), name |-> StrVal(<<"T">>)], EmptyMap}

RECURSIVE SeqsUpTo(_, _)
SeqsUpTo(S, n) ==
    IF n = 0 THEN {<<>>}
    ELSE SeqsUpTo(S, n - 1) \cup {<<x>> \o s : x \in S, s \in {t \in SeqsUpTo(S, n - 1) : Len(t) = n - 1}}

CsvInputs ==
    {MapPayload(m) : m \in CsvItems}
    \cup {SeqPayload(s) : s \in SeqsUpTo(CsvItems, MaxCsvItems)}
    \cup {[shape |-> "string"]}

\* one call generateCSV(data, filePath): the directory and the file are
\* created (or that fails), then the records are written
generateCSV(data) ==
    /\ \/ /\ files' = files \cup {ArtifactPath(<<"traffic">>, now, "csv")}
          /\ overwritten' = overwritten \cup (files \cap {ArtifactPath(<<"traffic">>, now, "csv")})
          /\ ret' = [op |-> "generateCSV", data |-> data, created |-> TRUE,
                     out |-> GenerateCSV(data, reportFormat, maxRows, now)]
       \/ /\ ret' = [op |-> "generateCSV", data |-> data, created |-> FALSE,
                     out |-> [err |-> "open Reports: permission denied", panicked |-> FALSE,
                              preamble |-> <<>>, headers |-> <<>>, rows |-> <<>>,
                              note |-> <<>>]]
          /\ UNCHANGED <<files, overwritten>>
    /\ UNCHANGED <<apiURL, apiKey, reportData, maxRows, reportFormat, apiStatus, lastAPICheck,
                   settingsFile, configFile, lastProbe, now, lastFetched, filteredFrom>>
    /\ UNCHANGED batchVars

\* the row limits and formats SetReportConfig left in the session
CsvRowLimits == {2, 1000}

CsvInit ==
    /\ apiURL = "https://fw"
    /\ apiKey = "K1"
    /\ reportData = EmptyMap
    /\ lastFetched = reportData
    /\ maxRows \in CsvRowLimits
    /\ reportFormat \in {"standard", "complete", "json"}
    /\ apiStatus = "unknown"
    /\ lastAPICheck = ZeroTime
    /\ settingsFile = SettingsOf(apiURL, apiKey, maxRows, reportFormat, "n1")
    /\ files = {}
    /\ configFile = [exists |-> FALSE]
    /\ lastProbe = NoProbe
    /\ overwritten = {}
    /\ now = 0
    /\ ret = [op |-> "SetReportConfig", ok |-> TRUE]
    /\ filteredFrom = EmptyMap
    /\ BatchIdle

CsvNext == \E data \in CsvInputs : generateCSV(data)

CsvSpec == CsvInit /\ [][CsvNext]_vars

\* ------------------------------------------------------ connectivity probe
\* the endpoint TestAPIConnection calls
ProbeEndpoint == "/api/?type=op&cmd=<show><s><info></info></s></show>"

\* (variant: a verdict exactly five minutes old is still served)
CachedVerdictFreshInclusive(last, time) == last # ZeroTime /\ time - last <= FiveMinutes

\* !a.lastAPICheck.IsZero() && time.Since(a.lastAPICheck) < 5*time.Minute
CachedVerdictFresh(last, time) == last # ZeroTime /\ time - last < FiveMinutes

\* TestAPIConnection()
TestAPIConnection ==
    /\ IF apiURL = "" \/ apiKey = ""
       THEN /\ apiStatus' = "unconfigured"
            /\ ret' = [op |-> "TestAPIConnection", status |-> "error",
                       message |-> "API URL and Key must be configured first", reqs |-> {}]
            /\ UNCHANGED <<lastAPICheck, lastProbe>>
       ELSE IF CachedVerdictFresh(lastAPICheck, now)
       THEN /\ ret' = [op |-> "TestAPIConnection", status |-> apiStatus,
                       message |-> "Using cached status", reqs |-> {}]
            /\ UNCHANGED <<apiStatus, lastAPICheck, lastProbe>>
       ELSE \E resp \in BatchResponses :
               /\ lastAPICheck' = now
               /\ lastProbe' = [at |-> now, saved |-> FALSE, url |-> apiURL, key |-> apiKey,
                                 status |-> IF callPaloAltoAPI(resp).err # ""
                                            THEN "error" ELSE "success"]
               /\ IF callPaloAltoAPI(resp).err # ""
                  THEN /\ apiStatus' = "error"
                       /\ ret' = [op |-> "TestAPIConnection", status |-> "error",
                                  message |-> "API connection failed",
                                  reqs |-> {BuildRequest(apiURL, apiKey, ProbeEndpoint, "", "")}]
                  ELSE /\ apiStatus' = "connected"
                       /\ ret' = [op |-> "TestAPIConnection", status |-> "success",
                                  message |-> "API connection successful",
                                  reqs |-> {BuildRequest(apiURL, apiKey, ProbeEndpoint, "", "")}]
    /\ UNCHANGED <<apiURL, apiKey, reportData, maxRows, reportFormat, settingsFile, files,
                   configFile, overwritten, now, lastFetched, filteredFrom>>
    /\ UNCHANGED batchVars

\* a session of settings saves and connectivity probes, the clock advancing
\* a minute at a time
ProbeNext ==
    \/ \E url \in URLs, key \in VaultKeys : SaveAPISettings(url, key)
    \/ TestAPIConnection
    \/ Tick(60, 60 * MaxProbeMinutes)

ProbeSpec == Init /\ [][ProbeNext]_vars

\* ---------------------------------------------------------- settings vault
\* what happens to the bytes of the stored key outside the program: one bit
\* of the nonce or of the ciphertext flips, the value is cut short, or it is
\* replaced by text that is not base64
FlipNonceBit(text) == Base64Encode([Base64Decode(text) EXCEPT ![1] = "flipped"])

FlipCiphertextBit(text) ==
    Base64Encode([Base64Decode(text) EXCEPT ![NonceSize + 1].intact = FALSE])

Truncate(text) == Base64Encode(SubSeq(Base64Decode(text), 1, NonceSize - 1))

TamperKinds == {"nonce", "ciphertext", "truncate", "garble"}

Tampered(text, kind) ==
    CASE kind = "nonce" -> FlipNonceBit(text)
      [] kind = "ciphertext" -> FlipCiphertextBit(text)
      [] kind = "truncate" -> Truncate(text)
      [] kind = "garble" -> NotBase64

\* the stored key is as encryptAPIKey produced it
AsEncrypted(text) ==
    \E key \in VaultKeys \ {""}, nonce \in Nonces : text = encryptAPIKey(key, nonce)

\* the settings file read by loadSettings changed on disk since it was written
TamperSettingsFile(kind) ==
    /\ settingsFile.exists
    /\ AsEncrypted(settingsFile.encrypted_key)
    /\ settingsFile' = [settingsFile EXCEPT !.encrypted_key = Tampered(@, kind)]
    /\ UNCHANGED <<apiURL, apiKey, reportData, maxRows, reportFormat, apiStatus, lastAPICheck,
                   files, configFile, lastProbe, overwritten, now, ret, lastFetched, filteredFrom>>
    /\ UNCHANGED batchVars

\* the fields of a new App (NewApp) that loadSettings may replace
NewAppSettings == [apiURL |-> "", apiKey |-> "", maxRows |-> 1000, reportFormat |-> "standard"]

\* loadSettings: the fields after the call and the error returned, given the
\* file and the fields before the call
loadSettings(file, app) ==
    IF ~file.exists
    THEN [app |-> app, err |-> "settings file does not exist"]
    ELSE [app |-> [apiURL |-> file.api_url,
                   apiKey |-> IF file.encrypted_key # EmptyString
                                 /\ decryptAPIKey(file.encrypted_key).err = ""
                              THEN decryptAPIKey(file.encrypted_key).data
                              ELSE app.apiKey,
                   maxRows |-> IF file.max_rows > 0 THEN file.max_rows ELSE app.maxRows,
                   reportFormat |-> IF file.report_format # "" THEN file.report_format
                                    ELSE app.reportFormat],
          err |-> ""]

\* the application starts: NewApp, then startup calls loadSettings; ret holds
\* what loadSettings returned and what its call of decryptAPIKey returned
startup ==
    /\ LET loaded == loadSettings(settingsFile, NewAppSettings) IN
       /\ apiURL' = loaded.app.apiURL
       /\ apiKey' = loaded.app.apiKey
       /\ maxRows' = loaded.app.maxRows
       /\ reportFormat' = loaded.app.reportFormat
       /\ ret' = [op |-> "loadSettings", err |-> loaded.err,
                  decrypted |-> IF settingsFile.exists /\ settingsFile.encrypted_key # EmptyString
                                THEN <<decryptAPIKey(settingsFile.encrypted_key)>>
                                ELSE <<>>]
    /\ reportData' = EmptyMap
    /\ apiStatus' = "unknown"
    /\ lastAPICheck' = ZeroTime
    /\ lastProbe' = NoProbe
    /\ lastFetched' = EmptyMap
    /\ filteredFrom' = EmptyMap
    /\ UNCHANGED <<settingsFile, files, configFile, overwritten, now>>
    /\ UNCHANGED batchVars

\* the vault: settings saved, the file changed on disk, the application
\* started again
VaultNext ==
    \/ \E url \in URLs, key \in VaultKeys : SaveAPISettings(url, key)
    \/ \E kind \in TamperKinds : TamperSettingsFile(kind)
    \/ startup

VaultSpec == Init /\ [][VaultNext]_vars

\* ----------------------------------------------------------- configuration
\* the arguments SetReportConfig is called with
RowArgs == {-1, 0, 500}
FormatArgs == {"", "standard", "complete", "json"}

\* SetReportConfig(maxRows, format): fields first, then saveSettings
SetReportConfig(rows, format) ==
    /\ maxRows' = IF rows > 0 THEN rows ELSE maxRows
    /\ reportFormat' = IF format # "" THEN format ELSE reportFormat
    /\ \/ \E nonce \in Nonces :
             /\ settingsFile' = SettingsOf(apiURL, apiKey, maxRows', reportFormat', nonce)
             /\ ret' = [op |-> "SetReportConfig", ok |-> TRUE]
       \/ /\ ret' = [op |-> "SetReportConfig", ok |-> FALSE]
          /\ UNCHANGED settingsFile
    /\ UNCHANGED <<apiURL, apiKey, reportData, apiStatus, lastAPICheck, files, configFile,
                   lastProbe, overwritten, now, lastFetched, filteredFrom>>
    /\ UNCHANGED batchVars

\* a Go string written to a file as it is
PlainText(text) == [plain |-> text]

\* the Config struct the Reporting server marshals into config/config.json
ConfigOf(url, key) == [exists |-> TRUE, api_url |-> url, api_key |-> PlainText(key)]

\* handleSaveConfig of the Reporting server: POST /save-config with the form
\* values api_url and api_key
handleSaveConfig(method, url, key) ==
    /\ IF method # "POST"
       THEN /\ ret' = [op |-> "handleSaveConfig", status |-> 405]
            /\ UNCHANGED configFile
       ELSE \/ /\ configFile' = ConfigOf(url, key)
               /\ ret' = [op |-> "handleSaveConfig", status |-> 200]
            \/ /\ ret' = [op |-> "handleSaveConfig", status |-> 500]
               /\ UNCHANGED configFile
    /\ UNCHANGED <<apiURL, apiKey, reportData, maxRows, reportFormat, apiStatus, lastAPICheck,
                   settingsFile, files, lastProbe, overwritten, now, lastFetched, filteredFrom>>
    /\ UNCHANGED batchVars

\* every operation of the repository that saves or loads settings
ConfigNext ==
    \/ \E url \in URLs, key \in Keys : SaveAPISettings(url, key)
    \/ \E rows \in RowArgs, format \in FormatArgs : SetReportConfig(rows, format)
    \/ startup
    \/ \E method \in {"POST", "GET"}, url \in URLs, key \in Keys : handleSaveConfig(method, url, key)

ConfigSpec == Init /\ [][ConfigNext]_vars

\* ------------------------------------------------------------------ claims
TasksIn(states) == {t \in ReportTypes : pc[t] \in states}

BatchReturnedOk == bpc = "returned" /\ ret.err = ""

BatchRejected == bpc = "returned" /\ ret.err # ""

\* C1: at no instant are more than 3 tasks between acquiring and releasing a
\* semaphore slot
C1_AtMostThreeInFlight == Cardinality(TasksIn(InCycle)) <= 3

\* three tasks hold the slots while a fourth is blocked on the semaphore
C1_Witness == Cardinality(TasksIn(InCycle)) = 3 /\ TasksIn({"wait"}) # {}

\* C2: no two batch tasks are inside a write of the cache map at the same
\* time, and no unsynchronized cache access ends in a runtime abort
C2_ExclusiveCacheWrites == Cardinality(TasksIn(InCacheWrite)) <= 1 /\ ~crashed

\* C3: a batch called with N report types and a valid format returns exactly
\* N per-report-type entries plus the summary entry
C3_OutcomeHasNPlusOneEntries ==
    BatchReturnedOk =>
        /\ SummaryKey \in DOMAIN ret.results
        /\ Cardinality(DOMAIN ret.results) = Cardinality(bargs.types) + 1

\* a report type whose fetch and export succeeded left its artifact
Exported(t) == \E f \in files : f.reportType = t

\* C4: a failing report type does not change its siblings: at return every
\* entry reflects its own task only (success=true and the artifact path
\* exactly for the types whose fetch and export succeeded), and the summary
\* counts the succeeding and failing types and they add up to total
C4_PartialFailureIsolated ==
    BatchReturnedOk =>
        /\ \A t \in bargs.types \ {SummaryKey} :
              /\ t \in DOMAIN ret.results
              /\ ret.results[t].success = Exported(t)
              /\ ret.results[t].success =>
                    /\ ret.results[t].path \in files
                    /\ ret.results[t].path.reportType = t
        /\ ret.results[SummaryKey].successful = Cardinality({t \in bargs.types : Exported(t)})
        /\ ret.results[SummaryKey].failed = Cardinality({t \in bargs.types : ~Exported(t)})
        /\ ret.results[SummaryKey].total = Cardinality(bargs.types)
        /\ ret.results[SummaryKey].successful + ret.results[SummaryKey].failed
             = ret.results[SummaryKey].total

\* the batch returned with exactly one failed type and two successful ones
C4_Witness ==
    /\ BatchReturnedOk
    /\ ret.results[SummaryKey].failed = 1
    /\ ret.results[SummaryKey].successful = 2

\* C5: when the batch call has returned, every dispatched task has finished
\* and recorded its outcome; none is fetching, exporting or about to write
C5_ReturnsAfterAllTasks ==
    bpc = "returned" =>
        /\ \A t \in ReportTypes : pc[t] \in {"none", "done"}
        /\ ret.err = "" =>
              /\ \A t \in bargs.types : pc[t] = "done"
              /\ errorCount + successCount = Cardinality(bargs.types)

\* the batch returned after a failure and a success were both recorded
C5_Witness == BatchReturnedOk /\ errorCount >= 1 /\ successCount >= 1

\* C6: no state is reachable in which the batch call has not returned and
\* nothing can run any more (every dispatched task can go on to a slot and to
\* its end, and the call can go on to its return)
C6_NeverStuckBeforeReturn == bpc = "dispatch" => ENABLED BatchNext

\* C7: the call fails exactly when the report-type set is empty or the format
\* is not csv/pdf, and then no task was dispatched, no fetch was issued and
\* the cache and the Reports directory are unchanged
C7_WholeBatchValidation ==
    bpc = "returned" =>
        /\ ret.err # "" <=> (bargs.types = {} \/ bargs.format \notin {"csv", "pdf"})
        /\ ret.err # "" =>
              /\ \A t \in ReportTypes : pc[t] = "none"
              /\ wg = 0 /\ fetches = 0
              /\ reportData = cache0 /\ files = {}

\* a non-empty batch was rejected for its format while the cache held data
C7_Witness ==
    /\ BatchRejected
    /\ bargs.types # {} /\ bargs.format = "json"
    /\ reportData # EmptyMap

\* C8: at most one task is inside the critical section, the mutex is held
\* exactly there (never while fetching or exporting), and results and the
\* counters change only under the mutex
C8_ResultsUnderMutex ==
    /\ [](/\ Cardinality(TasksIn({"cs"})) <= 1
          /\ \A t \in ReportTypes : (mu = t) <=> (pc[t] = "cs"))
    /\ [][(bpc' # "returned"
            /\ (results' # results \/ errorCount' # errorCount \/ successCount' # successCount))
           => (mu # NoTask /\ pc[mu] = "cs")]_vars

\* one task writes its outcome while another waits for the mutex and a
\* third is fetching
C8_Witness ==
    /\ TasksIn({"cs"}) # {} /\ TasksIn({"lock"}) # {} /\ TasksIn({"gen"}) # {}

\* C9: the cache never holds a filtered view computed from an earlier
\* payload than the one cached for its parent
C9_FilteredViewFresh ==
    \A rt \in SessionTypes :
        FilteredKey(rt) \in DOMAIN reportData =>
            /\ rt \in DOMAIN reportData
            /\ filteredFrom[FilteredKey(rt)] = reportData[rt]

\* C10: the cache entry of a report type is exactly the payload of its most
\* recent successful fetch, and a failed fetch leaves the cache unchanged
C10_CacheIsLatestFetch ==
    /\ [](\A rt \in SessionTypes :
            /\ rt \in DOMAIN reportData <=> rt \in DOMAIN lastFetched
            /\ rt \in DOMAIN reportData => reportData[rt] = lastFetched[rt])
    /\ [][(ret' # ret /\ ret'.op = "GenerateReport")
           => IF ret'.err = ""
              THEN /\ reportData'[ret'.reportType] = ret'.data
                   /\ \A k \in DOMAIN reportData \ {ret'.reportType} :
                         k \in DOMAIN reportData' /\ reportData'[k] = reportData[k]
              ELSE reportData' = reportData]_vars

\* a fetch failed after the entry of its report type had been overwritten by
\* a second successful fetch
C10_Witness ==
    /\ ret.op = "GenerateReport" /\ ret.err # ""
    /\ ret.reportType \in DOMAIN reportData
    /\ FilteredKey(ret.reportType) \in DOMAIN filteredFrom
    /\ filteredFrom[FilteredKey(ret.reportType)] # reportData[ret.reportType]

\* the calls that read a cache entry by report type
CacheReaders == {"ExportToCSV", "ExportToPDF", "FilterReportData"}

NoDataError == "no data available for report type"

\* C11: ExportToCSV, ExportToPDF and FilterReportData called for a report type
\* with no cache entry return the 'no data available' error and nothing else
\* (no path, no result), write no artifact and leave the cache unchanged; the
\* error is returned in no other case
C11_NoDataIsAnError ==
    [][ret'.op \in CacheReaders =>
          IF ret'.reportType \notin DOMAIN reportData
          THEN /\ ret'.err = NoDataError
               /\ DOMAIN ret' = {"op", "reportType", "err"}
               /\ files' = files
               /\ reportData' = reportData
          ELSE ret'.err # NoDataError]_vars

\* a PDF export was refused for a report type without data while the cache
\* held another report and an earlier export had written its artifact
C11_Witness ==
    /\ ret.op = "ExportToPDF" /\ ret.err = NoDataError
    /\ reportData # EmptyMap /\ files # {}

\* a step of TestAPIConnection (it leaves the clock alone and is the only
\* call returning under its name)
TestStep == ret'.op = "TestAPIConnection" /\ now' = now /\ vars' # vars

SaveStep == ret'.op = "SaveAPISettings" /\ now' = now /\ vars' # vars

\* C13: a SaveAPISettings call made after a connectivity probe resets the
\* cached status to "unknown" and clears the last-probe time, and the next
\* TestAPIConnection call does not answer with the cached verdict
C13_SaveForcesNewProbe ==
    [][/\ (SaveStep /\ lastProbe.at # ZeroTime)
            => (apiStatus' = "unknown" /\ lastAPICheck' = ZeroTime)
       /\ (TestStep /\ lastProbe.saved)
            => ret'.message # "Using cached status"]_vars

\* a step of GenerateReport called from the UI
GenerateStep == ret'.op = "GenerateReport" /\ vars' # vars

\* C14: GenerateReport called while the base URL or the API key is empty
\* fails with the 'must be configured' error whatever the report type, with
\* no registry lookup, no request and the cache unchanged
C14_UnconfiguredFailsFast ==
    [][(GenerateStep /\ (apiURL = "" \/ apiKey = ""))
       => /\ ret'.err = "API URL and Key must be configured first"
          /\ ret'.lookups = <<>>
          /\ ret'.reqs = {}
          /\ reportData' = reportData]_vars

\* with the key missing and a report cached earlier, a fetch of a type that
\* is not in the registry was refused as unconfigured
C14_Witness ==
    /\ ret.op = "GenerateReport" /\ ret.err = "API URL and Key must be configured first"
    /\ ret.reportType = SummaryKey
    /\ apiURL # "" /\ apiKey = ""
    /\ reportData # EmptyMap

\* the (reportType, path) pairs of the registry for the modelled types
RegistryPairs ==
    {<< <<"traffic">>, "/restapi/v11.0/Objects/TrafficLogs" >>,
     << <<"systemInfo">>, "/api/?type=op&cmd=<show><s><info></info></s></show>" >>,
     << <<"zones">>, "/restapi/v11.0/Network/Zones" >>,
     << <<"tags">>, "/restapi/v11.0/Objects/Tags" >>}

\* C15: a registry lookup returns exactly the path registered for its report
\* type (and the request goes to that path); for a string that is not a
\* registry key it returns a NotFound signal, not an empty path, and
\* GenerateReport fails with 'unknown report type', sends no request and
\* leaves the cache unchanged
C15_LookupExactOrNotFound ==
    [][(GenerateStep /\ ret'.lookups # <<>>)
       => IF \E p \in RegistryPairs : p[1] = ret'.reportType
          THEN /\ << ret'.reportType, ret'.lookups[1] >> \in RegistryPairs
               /\ \A r \in ret'.reqs : << ret'.reportType, r.path >> \in RegistryPairs
          ELSE /\ ret'.lookups[1] # ""
               /\ ret'.err = "unknown report type"
               /\ ret'.reqs = {}
               /\ reportData' = reportData]_vars

\* C16: two exports of the same report type to the same kind within the same
\* second get two distinct artifact paths: no export writes to the path of
\* an artifact that already exists
C16_ExportsNeverCollide == overwritten = {}

\* a step of startup that found a settings file
LoadStep == ret'.op = "loadSettings" /\ settingsFile' = settingsFile /\ settingsFile.exists

\* C17: loadSettings returns an error whenever the stored encrypted key is
\* shorter than the nonce size or fails authentication
C17_LoadFailsOnBadKey ==
    [][(/\ LoadStep
        /\ \E key \in VaultKeys \ {""}, nonce \in Nonces :
              settingsFile.encrypted_key \in
                  {Truncate(encryptAPIKey(key, nonce)),
                   FlipNonceBit(encryptAPIKey(key, nonce)),
                   FlipCiphertextBit(encryptAPIKey(key, nonce))})
       => ret'.err # ""]_vars

WrittenStrings ==
    (IF settingsFile.exists THEN {settingsFile.api_url, settingsFile.report_format} ELSE {})
    \cup (IF configFile.exists THEN {configFile.api_url} ELSE {})

WrittenKeyFields ==
    (IF settingsFile.exists THEN {settingsFile.encrypted_key} ELSE {})
    \cup (IF configFile.exists THEN {configFile.api_key} ELSE {})

\* C19: after any save operation no field of a file written to durable
\* storage holds a raw API key
C19_KeyNeverInClear ==
    \A key \in Keys \ {""} :
        /\ key \notin WrittenStrings
        /\ PlainText(key) \notin WrittenKeyFields

\* C20: after any sequence of SetReportConfig, SaveAPISettings and
\* loadSettings calls the export format of the session is standard or
\* complete
C20_FormatIsEnum == reportFormat \in {"standard", "complete"}

\* generateCSV wrote the records of a non-empty sequence of mappings
CsvOfSequence ==
    /\ ret.op = "generateCSV"
    /\ ret.created
    /\ ret.data.shape = "seq"
    /\ ret.data.items # <<>>

\* C21: the tabular export of a sequence of mappings takes its headers from
\* the fields of the first entry in "standard" mode and from the fields of
\* all entries in "complete" mode, writes them in lexicographic order, and
\* renders a field an entry lacks as an empty cell, without an error.
C21_HeadersAndMissingCells ==
    CsvOfSequence =>
        LET items == ret.data.items
            headers == ret.out.headers
        IN  /\ reportFormat = "standard" =>
                   {headers[j] : j \in 1..Len(headers)} = DOMAIN items[1]
            /\ reportFormat = "complete" =>
                   {headers[j] : j \in 1..Len(headers)}
                       = UNION {DOMAIN items[i] : i \in 1..Len(items)}
            /\ \A j \in 1..Len(headers), k \in 1..Len(headers) :
                   j < k => StringLess(headers[j], headers[k])
            /\ \A i \in 1..Len(ret.out.rows) :
                   /\ Len(ret.out.rows[i]) = Len(headers)
                   /\ \A j \in 1..Len(headers) :
                          headers[j] \notin DOMAIN items[i] =>
                              /\ ret.out.rows[i][j] = <<>>
                              /\ ret.out.err = ""
                              /\ ~ret.out.panicked

\* three entries in "complete" mode, the second lacking fields of the others
C21_Witness ==
    /\ CsvOfSequence
    /\ reportFormat = "complete"
    /\ maxRows = 1000
    /\ Len(ret.data.items) = 3
    /\ ret.out.headers = <<"Zone", "action", "name">>
    /\ DOMAIN ret.data.items[1] = {"name", "action"}
    /\ DOMAIN ret.data.items[2] = {"name"}
    /\ ret.out.rows[2] = << <<>>, <<>>, <<"b">> >>
    /\ ret.out.err = ""

C23_UnsupportedShapeIsAnError ==
    [][(/\ ret'.op = "ExportToPDF"
        /\ now' = now
        /\ ret'.reportType \in DOMAIN reportData
        /\ reportData[ret'.reportType].shape # "map")
       => (ret'.err # "" /\ files' = files)]_vars

\* C24: for a 200 response callPaloAltoAPI returns the decoded object when
\* the body parses as a JSON object, the body wrapped verbatim as
\* {result: body} when parsing fails but the body contains the legacy
\* marker, and a decode error for any other body; a response with a
\* non-2xx status is a fetch error carrying the status code.
C24_DecodeOutcomes ==
    (ret.op = "callPaloAltoAPI" /\ ret.resp.kind = "http") =>
        LET body == ret.resp.body IN
        /\ (ret.resp.status = 200 /\ body.fmt = "json") =>
               ret.out = Ok(MapPayload(body.obj))
        /\ (ret.resp.status = 200 /\ body.fmt # "json"
                /\ \E i \in 1..Len(body.text) : body.text[i] = "<response") =>
               ret.out = Ok(MapPayload([result |-> StrVal(body.text)]))
        /\ (ret.resp.status = 200 /\ body.fmt # "json"
                /\ \A i \in 1..Len(body.text) : body.text[i] # "<response") =>
               ret.out = Fail("error parsing response")
        /\ ret.resp.status \notin 200..299 =>
               /\ ret.out.err = "API returned error status"
               /\ ret.out.status = ret.resp.status

\* the query of request r carries parameter name with value v
HasParam(r, name, v) ==
    \E i \in 1..(Len(r.query) - 1) : r.query[i] = name /\ r.query[i + 1] = v

\* the query of request r carries parameter name
NamesParam(r, name) == \E i \in 1..Len(r.query) : r.query[i] = name

\* C25: the request GenerateReport sends carries the start-time and end-time
\* parameters, with the bounds of the call, exactly when both bounds are
\* non-empty; with one bound or none it carries neither.
C25_DatesSentOnlyAsAPair ==
    ret.op = "GenerateReport" =>
        \A r \in ret.reqs :
            IF ret.startDate # "" /\ ret.endDate # ""
            THEN /\ HasParam(r, "start-time", ret.startDate)
                 /\ HasParam(r, "end-time", ret.endDate)
            ELSE /\ ~NamesParam(r, "start-time")
                 /\ ~NamesParam(r, "end-time")

\* a request went out for a call that gave the start bound only
C25_Witness ==
    /\ ret.op = "GenerateReport"
    /\ ret.startDate # "" /\ ret.endDate = ""
    /\ ret.reqs # {}
    /\ \A r \in ret.reqs : r.query = <<>>

\* a field value of the entry contains the term, letter case set aside
ValueContains(item, term) ==
    \E field \in DOMAIN item : Contains(ToLower(Sprint(item[field])), ToLower(term))

\* cache key k holds a payload the search scans, and one of its entries has
\* a field value containing the term of the last search
ScannedHit(k) ==
    /\ k[Len(k)] # "_filtered"
    /\ \E i \in 1..Len(FilterItems(reportData[k])) :
           ValueContains(FilterItems(reportData[k])[i], ret.term)

\* C26: SearchAllReports with a non-empty term returns found = TRUE exactly
\* when some cached payload that is not a filtered view has a field value
\* containing the term case-insensitively; reports_with_matches is the
\* number of such report types, and the matches of each report are exactly
\* its matching entries.
C26_SearchFindsExactlyTheMatches ==
    (ret.op = "SearchAllReports" /\ ret.err = "") =>
        /\ ret.found <=> (\E k \in DOMAIN reportData : ScannedHit(k))
        /\ ret.reports_with_matches = Cardinality({k \in DOMAIN reportData : ScannedHit(k)})
        /\ DOMAIN ret.results = {k \in DOMAIN reportData : ScannedHit(k)}
        /\ \A k \in DOMAIN ret.results :
               LET items == FilterItems(reportData[k])
                   matches == ret.results[k].matches
               IN  /\ ret.results[k].count = Len(matches)
                   /\ \A i \in 1..Len(matches) :
                          /\ ValueContains(matches[i], ret.term)
                          /\ \E j \in 1..Len(items) : items[j] = matches[i]
                   /\ \A j \in 1..Len(items) :
                          ValueContains(items[j], ret.term)
                              => \E i \in 1..Len(matches) : matches[i] = items[j]

\* two payloads cached, one with the term (typed in capitals) in a value:
\* found, one report with matches, the matching entry listed
C26_Witness ==
    /\ ret.op = "SearchAllReports" /\ ret.err = ""
    /\ ret.term = <<"T", "A">>
    /\ {<<"traffic">>, <<"systemInfo">>} \subseteq DOMAIN reportData
    /\ ret.found
    /\ ret.reports_with_matches = 1
    /\ DOMAIN ret.results = {<<"systemInfo">>}
    /\ ret.results[<<"systemInfo">>].matches = <<ObjA>>

\* a FilterReportData call returned
FilterStep == ret'.op = "FilterReportData" /\ vars' # vars

\* C29: FilterReportData never changes the payload cached under reportType
\* nor the entry of any other key: the only key it may write is
\* reportType + "_filtered"; called with no filter criteria it leaves the
\* whole cache unchanged and returns the original payload with
\* filtered = FALSE.
C29_FilterWritesOnlyItsView ==
    [][FilterStep =>
        /\ \A k \in DOMAIN reportData :
               k # ret'.reportType \o <<"_filtered">> =>
                   (k \in DOMAIN reportData' /\ reportData'[k] = reportData[k])
        /\ DOMAIN reportData' \subseteq
               (DOMAIN reportData) \cup {ret'.reportType \o <<"_filtered">>}
        /\ (ret'.err = "" /\ DOMAIN ret'.filters = {}) =>
               /\ reportData' = reportData
               /\ ret'.filtered = FALSE
               /\ ret'.result = reportData[ret'.reportType]]_vars

\* a filter with criteria stored its view next to two fetched payloads,
\* both as they were fetched
C29_Witness ==
    /\ ret.op = "FilterReportData" /\ ret.err = ""
    /\ ret.filtered
    /\ ret.reportType = <<"traffic">>
    /\ DOMAIN reportData = {<<"traffic">>, <<"systemInfo">>, <<"traffic", "_filtered">>}
    /\ reportData[<<"traffic">>] = lastFetched[<<"traffic">>]
    /\ reportData[<<"systemInfo">>] = lastFetched[<<"systemInfo">>]

\* C30: reports_searched is the number of cached payloads the search
\* scanned, filtered views not counted, so that reports_with_matches <=
\* reports_searched <= number of fetched report types.
C30_SearchedCountsScannedOnly ==
    (ret.op = "SearchAllReports" /\ ret.err = "") =>
        /\ ret.reports_searched
               = Cardinality({k \in DOMAIN reportData : k[Len(k)] # "_filtered"})
        /\ ret.reports_with_matches <= ret.reports_searched
        /\ ret.reports_searched <= Cardinality(DOMAIN lastFetched)

\* the last TestAPIConnection call was answered from the cached verdict
AnsweredFromCache == ret.op = "TestAPIConnection" /\ ret.message = "Using cached status"

\* C27: a TestAPIConnection call that answers from the cache does so only
\* if the in-memory URL and key are the ones the cached verdict was obtained
\* with, also after a SaveAPISettings call whose persistence step failed.
C27_VerdictOfTheseCredentials ==
    AnsweredFromCache => (apiURL = lastProbe.url /\ apiKey = lastProbe.key)

\* C28: a TestAPIConnection call answered from the cache reports the status
\* value that the call which performed the probe returned, for a positive
\* and for a negative verdict.
C28_CachedStatusIsProbeStatus ==
    AnsweredFromCache => ret.status = lastProbe.status

====
